---- MODULE Spec2Model ----
(***************************************************************************)
(* Model of scripts/docx_to_jekyll.py: the paragraph-stream classifier     *)
(* (parse_docx), the item segmenter (build_items_for_section) and the      *)
(* pure text helpers they call.                                            *)
(*                                                                         *)
(* Text.  A Python str is modelled as a sequence of characters.  An ASCII  *)
(* character is the one-character string itself; a Cyrillic letter, which  *)
(* a TLA+ string literal cannot hold, is the token "cy_<name>" (lower      *)
(* case) or "CY_<name>" (upper case), <name> being the letter's Unicode    *)
(* name.  Str(s) turns an ASCII literal into such a sequence.              *)
(*                                                                         *)
(* None.  An optional value (str | None) is a sequence of length 0 (None)  *)
(* or 1 (the value).                                                       *)
(***************************************************************************)
EXTENDS Integers, Sequences, FiniteSets, TLC

VARIABLES
    \* ---- item_excerpt (lines 97-101), applied on its own (SpecExcerpt):
    \* its position, its argument and its result
    epc, ebody, excerpt,
    \* ---- build_items_for_section (lines 129-211, SpecSeg): its position,
    \* its arguments (paragraphs: the part of the bucket read so far) and
    \* its locals of lines 130-136, as the record seg
    spc, section_title, section_slug, paragraphs, seg,
    \* ---- parse_docx (lines 242-362, Spec): its position, the loop
    \* variable, the number of paragraphs read after the first, the locals
    \* of lines 242-255 and the SiteData it returns
    pc, home_title, paragraph, nread, menu_items, title_lines,
    title_image_rel_ids, footer_lines, home_content_blocks,
    section_paragraphs, section_titles, section_order,
    home_preview_section_keys, current_section, current_h1, site,
    \* ---- main (lines 1349-1354) and the decoding step of parse_docx (lines
    \* 227-240), SpecMain: the position of main, the number of w:p elements
    \* decoded, the list raw_paragraphs, the exception that left parse_docx
    \* (None while there is none) and whether render_site has run, which
    \* removes and writes the output files
    mpc, nxml, raw_paragraphs, error, rendered,
    \* ---- the list pages of one menu section in render_site (lines
    \* 1315-1346), SpecPages: the position in the loop, the section of the
    \* outer loop (its slug and its items), the loop variable of the inner
    \* loop and the files written so far
    lpc, menu_section, page_number, pages

evars == <<epc, ebody, excerpt>>
svars == <<spc, section_title, section_slug, paragraphs, seg>>
cvars == <<pc, home_title, paragraph, nread, menu_items, title_lines,
           title_image_rel_ids, footer_lines, home_content_blocks,
           section_paragraphs, section_titles, section_order,
           home_preview_section_keys, current_section, current_h1, site>>
mvars == <<mpc, nxml, raw_paragraphs, error, rendered>>
pvars == <<lpc, menu_section, page_number, pages>>
vars == <<evars, svars, cvars, mvars, pvars>>

-----------------------------------------------------------------------------
(* Characters and strings *)

Str(s) == [i \in 1..Len(s) |-> SubSeq(s, i, i)]

None == <<>>
Some(v) == <<v>>

LatinUpper == Str("ABCDEFGHIJKLMNOPQRSTUVWXYZ")
LatinLower == Str("abcdefghijklmnopqrstuvwxyz")
Digits == Str("0123456789")

CyrLower ==
    << "cy_a", "cy_be", "cy_ve", "cy_ghe", "cy_de", "cy_ie", "cy_io", "cy_zhe",
       "cy_ze", "cy_i", "cy_short_i", "cy_ka", "cy_el", "cy_em", "cy_en", "cy_o",
       "cy_pe", "cy_er", "cy_es", "cy_te", "cy_u", "cy_ef", "cy_ha", "cy_tse",
       "cy_che", "cy_sha", "cy_shcha", "cy_hard", "cy_yeru", "cy_soft", "cy_e",
       "cy_yu", "cy_ya" >>

CyrUpper ==
    << "CY_a", "CY_be", "CY_ve", "CY_ghe", "CY_de", "CY_ie", "CY_io", "CY_zhe",
       "CY_ze", "CY_i", "CY_short_i", "CY_ka", "CY_el", "CY_em", "CY_en", "CY_o",
       "CY_pe", "CY_er", "CY_es", "CY_te", "CY_u", "CY_ef", "CY_ha", "CY_tse",
       "CY_che", "CY_sha", "CY_shcha", "CY_hard", "CY_yeru", "CY_soft", "CY_e",
       "CY_yu", "CY_ya" >>

\* CYR_MAP: the Latin spelling of each lower-case Cyrillic letter, in the
\* order of CyrLower.
CyrLatin ==
    << "a", "b", "v", "g", "d", "e", "e", "zh",
       "z", "i", "y", "k", "l", "m", "n", "o",
       "p", "r", "s", "t", "u", "f", "h", "ts",
       "ch", "sh", "sch", "", "y", "", "e",
       "yu", "ya" >>

Range(f) == {f[i] : i \in DOMAIN f}

IndexOf(seq, c) == CHOOSE i \in DOMAIN seq : seq[i] = c

CYR_MAP == [c \in Range(CyrLower) |-> Str(CyrLatin[IndexOf(CyrLower, c)])]

\* str.lower(), one character
LowerChar(c) ==
    IF c \in Range(LatinUpper) THEN LatinLower[IndexOf(LatinUpper, c)]
    ELSE IF c \in Range(CyrUpper) THEN CyrLower[IndexOf(CyrUpper, c)]
    ELSE c

Lower(s) == [i \in DOMAIN s |-> LowerChar(s[i])]

Whitespace == {" ", "\n", "\t", "\r"}

\* str.lstrip(chars) / str.rstrip(chars) / str.strip(chars)
LStripChars(s, chars) ==
    LET keep == {i \in DOMAIN s : s[i] \notin chars}
    IN  IF keep = {} THEN <<>>
        ELSE SubSeq(s, CHOOSE i \in keep : \A j \in keep : i <= j, Len(s))

RStripChars(s, chars) ==
    LET keep == {i \in DOMAIN s : s[i] \notin chars}
    IN  IF keep = {} THEN <<>>
        ELSE SubSeq(s, 1, CHOOSE i \in keep : \A j \in keep : i >= j)

StripChars(s, chars) == RStripChars(LStripChars(s, chars), chars)

Strip(s) == StripChars(s, Whitespace)
RStrip(s) == RStripChars(s, Whitespace)

\* s.startswith(prefix)
StartsWith(s, prefix) ==
    /\ Len(prefix) <= Len(s)
    /\ SubSeq(s, 1, Len(prefix)) = prefix

\* needle in hay
Contains(hay, needle) ==
    \E i \in 1..(Len(hay) - Len(needle) + 1) :
        SubSeq(hay, i, i + Len(needle) - 1) = needle

RECURSIVE Flatten(_)
Flatten(ss) == IF ss = <<>> THEN <<>> ELSE Head(ss) \o Flatten(Tail(ss))

\* sep.join(parts)
RECURSIVE Join(_, _)
Join(sep, parts) ==
    IF parts = <<>> THEN <<>>
    ELSE IF Len(parts) = 1 THEN parts[1]
    ELSE parts[1] \o sep \o Join(sep, Tail(parts))

\* [x for x in seq if Test(x)]
RECURSIVE SelectSeqOf(_, _)
SelectSeqOf(seq, keepSet) ==
    IF seq = <<>> THEN <<>>
    ELSE IF Head(seq) \in keepSet
         THEN <<Head(seq)>> \o SelectSeqOf(Tail(seq), keepSet)
         ELSE SelectSeqOf(Tail(seq), keepSet)

\* str(n) for a natural number
RECURSIVE IntToStr(_)
IntToStr(n) ==
    IF n < 10 THEN <<Digits[n + 1]>>
    ELSE IntToStr(n \div 10) \o <<Digits[(n % 10) + 1]>>

-----------------------------------------------------------------------------
(* Pure helpers of the source *)

transliterate(value) ==
    Flatten([i \in DOMAIN value |->
                LET ch == LowerChar(value[i])
                IN  IF ch \in DOMAIN CYR_MAP THEN CYR_MAP[ch] ELSE <<ch>>])

SlugChars == Range(LatinLower) \cup Range(Digits)

\* re.sub(r"[^a-z0-9]+", "-", s): every maximal run of other characters
\* becomes one "-"
SubNonAlnum(s) ==
    LET keepAt(i) == s[i] \in SlugChars \/ i = 1 \/ s[i - 1] \in SlugChars
        idx == SelectSeqOf([i \in DOMAIN s |-> i], {i \in DOMAIN s : keepAt(i)})
    IN  [k \in DOMAIN idx |-> IF s[idx[k]] \in SlugChars THEN s[idx[k]] ELSE "-"]

slugify_nostrip(value, fallback) ==
    LET slug == SubNonAlnum(transliterate(value))
    IN  IF slug # <<>> THEN slug ELSE fallback

slugify(value, fallback) ==
    LET slug == StripChars(SubNonAlnum(transliterate(value)), {"-"})
    IN  IF slug # <<>> THEN slug ELSE fallback

normalize_section(name) == Lower(Strip(name))

\* "нижний", "колонтитул", "колонтикул"
KeyNizhniy == <<"cy_en", "cy_i", "cy_zhe", "cy_en", "cy_i", "cy_short_i">>
KeyKolontitul ==
    <<"cy_ka", "cy_o", "cy_el", "cy_o", "cy_en", "cy_te", "cy_i", "cy_te", "cy_u", "cy_el">>
KeyKolontikul ==
    <<"cy_ka", "cy_o", "cy_el", "cy_o", "cy_en", "cy_te", "cy_i", "cy_ka", "cy_u", "cy_el">>

is_footer_section_key(section_key) ==
    /\ Contains(section_key, KeyNizhniy)
    /\ \/ Contains(section_key, KeyKolontitul)
       \/ Contains(section_key, KeyKolontikul)

ExcerptLimit == 240
ExcerptKeep == 237

\* body.split("\n\n", 1)[0]
FirstSplit(body) ==
    LET at == {i \in 1..(Len(body) - 1) : body[i] = "\n" /\ body[i + 1] = "\n"}
    IN  IF at = {} THEN body
        ELSE SubSeq(body, 1, (CHOOSE i \in at : \A j \in at : i <= j) - 1)

item_excerpt_norstrip(body) ==
    LET first == Strip(FirstSplit(body))
    IN  IF Len(first) > ExcerptLimit
        THEN SubSeq(first, 1, ExcerptKeep) \o Str("...")
        ELSE first

item_excerpt(body) ==
    LET first == Strip(FirstSplit(body))
    IN  IF Len(first) > ExcerptLimit
        THEN RStrip(SubSeq(first, 1, ExcerptKeep)) \o Str("...")
        ELSE first

-----------------------------------------------------------------------------
(* Depth-4 field markers *)

\* "дата" and "видео"; len("Дата") = 4, len("Видео") = 5
WordData == <<"cy_de", "cy_a", "cy_te", "cy_a">>
WordVideo == <<"cy_ve", "cy_i", "cy_de", "cy_ie", "cy_o">>

MarkerPunct == {" ", ":", ".", "-"}

\* The characters the pattern of normalize_video_url accepts as a quote:
\* the class ["\\\'] of the raw pattern holds ", \ and '.
QuoteClass == {"\"", "\\", "'"}

\* The group of the pattern  src\\s*=\\s*["\\\']([^"\\\']+)["\\\']  (a raw
\* string, so \\ is a literal backslash and s* a run of the letter s),
\* matched with IGNORECASE at position i of value: <<group>> or None.
IframeMatchAt(value, i) ==
    LET n == Len(value)
        low == Lower(value)
        \* first index >= k that is not the letter s
        skipS(k) == CHOOSE m \in k..(n + 1) :
                        /\ \A j \in k..(m - 1) : low[j] = "s"
                        /\ m = n + 1 \/ low[m] # "s"
        a == i + 3                  \* the backslash after "src"
        b == skipS(a + 1)           \* "="
        c == b + 1                  \* the backslash after "="
        d == skipS(c + 1)           \* the opening quote
        \* first index > d holding a quote-class character
        e == CHOOSE m \in (d + 1)..(n + 1) :
                        /\ \A j \in (d + 1)..(m - 1) : value[j] \notin QuoteClass
                        /\ m = n + 1 \/ value[m] \in QuoteClass
    IN  IF /\ i + 3 <= n
           /\ SubSeq(low, i, i + 2) = Str("src")
           /\ value[a] = "\\"
           /\ b <= n /\ value[b] = "="
           /\ c <= n /\ value[c] = "\\"
           /\ d <= n /\ value[d] \in QuoteClass
           /\ e <= n /\ e > d + 1
        THEN Some(SubSeq(value, d + 1, e - 1))
        ELSE None

\* re.search: the leftmost position that matches
IframeSearch(value) ==
    LET hits == {i \in DOMAIN value : IframeMatchAt(value, i) # None}
    IN  IF hits = {} THEN None
        ELSE IframeMatchAt(value, CHOOSE i \in hits : \A j \in hits : i <= j)

normalize_video_url(value) ==
    IF value = <<>> THEN <<>>
    ELSE LET iframe_match == IframeSearch(value)
         IN  IF iframe_match # None THEN Strip(iframe_match[1])
             ELSE Strip(value)

\* (is_date_heading, inline_date)
parse_heading4_date(text) ==
    LET normalized == normalize_section(text)
    IN  IF ~StartsWith(normalized, WordData) THEN <<FALSE, <<>>>>
        ELSE <<TRUE, StripChars(SubSeq(text, Len(WordData) + 1, Len(text)), MarkerPunct)>>

\* (is_video_heading, inline_video)
parse_heading4_video(text) ==
    LET normalized == normalize_section(text)
    IN  IF ~StartsWith(normalized, WordVideo) THEN <<FALSE, <<>>>>
        ELSE <<TRUE, normalize_video_url(
                        StripChars(SubSeq(text, Len(WordVideo) + 1, Len(text)), MarkerPunct))>>

VideoBlock(url) ==
    Str("<div class=\"news-video\"><iframe src=\"") \o url \o Str("\"></iframe></div>")

-----------------------------------------------------------------------------
(* build_items_for_section *)

H1Styles == {"1", "Heading1"}
H2Styles == {"2", "Heading2"}
H3Styles == {"3", "Heading3"}
H4Styles == {"4", "Heading4"}

RawParagraph(style, text, image_rel_ids) ==
    [style |-> style, text |-> text, image_rel_ids |-> image_rel_ids]

\* The locals of build_items_for_section at its entry
SegInit ==
    [ items |-> <<>>,
      current_title |-> None,
      current_body |-> <<>>,
      current_images |-> <<>>,
      current_date |-> <<>>,
      waiting_date_value |-> FALSE,
      waiting_video_value |-> FALSE ]

\* body = "\n\n".join(part for part in current_body if part).strip()
ItemBody(current_body) ==
    Strip(Join(Str("\n\n"),
               SelectSeqOf(current_body, {part \in Range(current_body) : part # <<>>})))

ItemSlug(title, slug, idx) ==
    slugify(title, slug \o Str("-item-") \o IntToStr(idx))

SectionItem_zeroBased(s, slug) ==
    LET body == ItemBody(s.current_body)
        idx == Len(s.items)
        title == s.current_title[1]
    IN  [ index |-> idx,
          title |-> title,
          body |-> body,
          image_rel_ids |-> s.current_images,
          event_date |-> s.current_date,
          excerpt |-> item_excerpt(body),
          slug |-> ItemSlug(title, slug, idx) ]

SectionItem(s, slug) ==
    LET body == ItemBody(s.current_body)
        idx == Len(s.items) + 1
        title == s.current_title[1]
    IN  [ index |-> idx,
          title |-> title,
          body |-> body,
          image_rel_ids |-> s.current_images,
          event_date |-> s.current_date,
          excerpt |-> item_excerpt(body),
          slug |-> ItemSlug(title, slug, idx) ]

flush_item(s, slug) ==
    IF s.current_title = None \/ s.current_title[1] = <<>> THEN s
    ELSE [ items |-> Append(s.items, SectionItem(s, slug)),
           current_title |-> None,
           current_body |-> <<>>,
           current_images |-> <<>>,
           current_date |-> <<>>,
           waiting_date_value |-> FALSE,
           waiting_video_value |-> FALSE ]

IsHeading3(p) == p.style \in H3Styles /\ p.text # <<>>
IsHeading4(p) == p.style \in H4Styles /\ p.text # <<>>
IsDateHeading(p) == IsHeading4(p) /\ parse_heading4_date(p.text)[1]
IsVideoHeading(p) ==
    IsHeading4(p) /\ ~parse_heading4_date(p.text)[1] /\ parse_heading4_video(p.text)[1]

\* lines 165-168
OnHeading3_noflush(s, p, slug) == [s EXCEPT !.current_title = Some(p.text)]

OnHeading3_notitle(s, p, slug) == flush_item(s, slug)

OnHeading3(s, p, slug) ==
    [flush_item(s, slug) EXCEPT !.current_title = Some(p.text)]

\* lines 172-178
OnDateHeading(s, p) ==
    LET inline_date == parse_heading4_date(p.text)[2]
    IN  IF inline_date # <<>>
        THEN [s EXCEPT !.current_date = inline_date, !.waiting_date_value = FALSE]
        ELSE [s EXCEPT !.waiting_date_value = TRUE]

\* lines 180-186
OnVideoHeading(s, p) ==
    LET inline_video == parse_heading4_video(p.text)[2]
    IN  IF inline_video # <<>>
        THEN [s EXCEPT !.current_body = Append(@, VideoBlock(inline_video)),
                       !.waiting_video_value = FALSE]
        ELSE [s EXCEPT !.waiting_video_value = TRUE]

\* lines 188-190
OpenImplicit(s, title) ==
    IF s.current_title = None THEN [s EXCEPT !.current_title = Some(title)] ELSE s

\* lines 192-195
ResolveDate_intoBody(s, p) ==
    [s EXCEPT !.current_date = p.text, !.waiting_date_value = FALSE,
              !.current_body = Append(@, p.text)]

ResolveDate(s, p) ==
    [s EXCEPT !.current_date = p.text, !.waiting_date_value = FALSE]

\* lines 197-202
ResolveVideo(s, p) ==
    [s EXCEPT !.current_body = Append(@, VideoBlock(normalize_video_url(p.text))),
              !.waiting_video_value = FALSE]

\* for rel_id in ids: if rel_id not in images: images.append(rel_id)
RECURSIVE MergeImages(_, _)
MergeImages(images, ids) ==
    IF ids = <<>> THEN images
    ELSE MergeImages(IF Head(ids) \in Range(images) THEN images
                     ELSE Append(images, Head(ids)),
                     Tail(ids))

\* lines 204-208
AddContent(s, p) ==
    [s EXCEPT !.current_body = IF p.text # <<>> THEN Append(@, p.text) ELSE @,
              !.current_images = MergeImages(@, p.image_rel_ids)]

\* One iteration of the loop of lines 164-208
SegStep(s, p, title, slug) ==
    IF IsHeading3(p) THEN OnHeading3(s, p, slug)
    ELSE IF IsDateHeading(p) THEN OnDateHeading(s, p)
    ELSE IF IsVideoHeading(p) THEN OnVideoHeading(s, p)
    ELSE LET s1 == OpenImplicit(s, title)
         IN  IF s1.waiting_date_value /\ p.text # <<>> THEN ResolveDate(s1, p)
             ELSE IF s1.waiting_video_value /\ p.text # <<>> THEN ResolveVideo(s1, p)
             ELSE AddContent(s1, p)

RECURSIVE SegFold(_, _, _, _)
SegFold(s, ps, title, slug) ==
    IF ps = <<>> THEN s
    ELSE SegFold(SegStep(s, Head(ps), title, slug), Tail(ps), title, slug)

build_items_for_section(title, slug, ps) ==
    flush_item(SegFold(SegInit, ps, title, slug), slug).items

-----------------------------------------------------------------------------
(* parse_docx: the classification pass (lines 242-328) *)

\* "меню", "контент", "название"
KeyMenu == <<"cy_em", "cy_ie", "cy_en", "cy_yu">>
KeyContent == <<"cy_ka", "cy_o", "cy_en", "cy_te", "cy_ie", "cy_en", "cy_te">>
KeyTitle == <<"cy_en", "cy_a", "cy_ze", "cy_ve", "cy_a", "cy_en", "cy_i", "cy_ie">>
base_sections == {KeyMenu, KeyContent, KeyTitle}

\* "новости" and its pinned slug
KeyNews == <<"cy_en", "cy_o", "cy_ve", "cy_o", "cy_es", "cy_te", "cy_i">>
FooterZone == Str("__footer__")

menu_key_set(items) == {normalize_section(items[i]) : i \in DOMAIN items}

\* line 261
IsZoneHeading(p) == p.text # <<>> /\ p.style \in (H1Styles \cup H2Styles)

NextH1_keep(p, h1) == h1

\* lines 258-259: current_h1 after the paragraph is read
NextH1(p, h1) ==
    IF p.text # <<>> /\ p.style \in H1Styles THEN Some(normalize_section(p.text)) ELSE h1

\* lines 266-270
IsFooterHeading(p, h1, home) ==
    /\ IsZoneHeading(p)
    /\ p.style \in H2Styles
    /\ h1 = Some(normalize_section(home))
    /\ is_footer_section_key(normalize_section(p.text))

\* lines 274-279
IsPreviewHeading(p, h1, home) ==
    /\ IsZoneHeading(p)
    /\ p.style \in H2Styles
    /\ h1 = Some(normalize_section(home))
    /\ normalize_section(p.text) \notin base_sections
    /\ ~is_footer_section_key(normalize_section(p.text))

\* lines 280-281
PreviewAppend_always(keys, section_key) == Append(keys, section_key)

PreviewAppend(keys, section_key) ==
    IF section_key \notin Range(keys) THEN Append(keys, section_key) ELSE keys

\* line 285
is_base_section(p) ==
    p.style \in H2Styles /\ normalize_section(p.text) \in base_sections

\* lines 286-294
is_dynamic_section(p, items, home) ==
    LET section_key == normalize_section(p.text)
    IN  IF p.style \in H1Styles
        THEN IF menu_key_set(items) # {}
             THEN section_key \in menu_key_set(items)
             ELSE /\ section_key # normalize_section(home)
                  /\ section_key \notin base_sections
        ELSE IF p.style \in H2Styles /\ section_key \notin base_sections
        THEN section_key \in menu_key_set(items)
        ELSE FALSE

\* line 296, reached only past the two early branches
IsSectionHeading(p, h1, home, items) ==
    /\ IsZoneHeading(p)
    /\ ~IsFooterHeading(p, h1, home)
    /\ ~IsPreviewHeading(p, h1, home)
    /\ is_base_section(p) \/ is_dynamic_section(p, items, home)

\* dict: d[key] = value / d.get(key, default)
DictPut(d, key, value) ==
    [k \in (DOMAIN d) \cup {key} |-> IF k = key THEN value ELSE d[k]]
DictGet(d, key, default) == IF key \in DOMAIN d THEN d[key] ELSE default

\* lines 271-272
EnterFooter ==
    /\ current_section' = Some(FooterZone)
    /\ UNCHANGED <<menu_items, title_lines, title_image_rel_ids, footer_lines,
                   home_content_blocks, section_paragraphs, section_titles,
                   section_order, home_preview_section_keys>>

\* lines 280-283
EnterPreview(p) ==
    /\ home_preview_section_keys' =
            PreviewAppend(home_preview_section_keys, normalize_section(p.text))
    /\ current_section' = None
    /\ UNCHANGED <<menu_items, title_lines, title_image_rel_ids, footer_lines,
                   home_content_blocks, section_paragraphs, section_titles,
                   section_order>>

EnterSection_lastTitle(p) ==
    LET section_key == normalize_section(p.text)
        fresh == section_key \notin base_sections /\ section_key \notin DOMAIN section_paragraphs
    IN  /\ current_section' = Some(section_key)
        /\ section_titles' = DictPut(section_titles, section_key, p.text)
        /\ section_paragraphs' = IF fresh THEN DictPut(section_paragraphs, section_key, <<>>)
                                 ELSE section_paragraphs
        /\ section_order' = IF fresh THEN Append(section_order, section_key)
                            ELSE section_order
        /\ UNCHANGED <<menu_items, title_lines, title_image_rel_ids, footer_lines,
                       home_content_blocks, home_preview_section_keys>>

\* lines 297-303
EnterSection(p) ==
    LET section_key == normalize_section(p.text)
        fresh == section_key \notin base_sections /\ section_key \notin DOMAIN section_paragraphs
    IN  /\ current_section' = Some(section_key)
        /\ section_titles' = IF section_key \notin DOMAIN section_titles
                             THEN DictPut(section_titles, section_key, p.text)
                             ELSE section_titles
        /\ section_paragraphs' = IF fresh THEN DictPut(section_paragraphs, section_key, <<>>)
                                 ELSE section_paragraphs
        /\ section_order' = IF fresh THEN Append(section_order, section_key)
                            ELSE section_order
        /\ UNCHANGED <<menu_items, title_lines, title_image_rel_ids, footer_lines,
                       home_content_blocks, home_preview_section_keys>>

\* lines 322-325
FooterAppend_all(lines, p) == Append(lines, p.text)

FooterAppend(lines, p) == IF p.text # <<>> THEN Append(lines, p.text) ELSE lines

\* lines 327-328
BucketAppend_anyBucket(buckets, section, p) ==
    IF section # None /\ section[1] # <<>> /\ section[1] \in DOMAIN buckets
    THEN [buckets EXCEPT ![section[1]] = Append(@, p)]
    ELSE IF DOMAIN buckets # {}
    THEN [buckets EXCEPT ![CHOOSE k \in DOMAIN buckets : TRUE] = Append(@, p)]
    ELSE buckets

BucketAppend_everyBucket(buckets, section, p) ==
    IF section # None /\ section[1] # <<>> /\ section[1] \in DOMAIN buckets
    THEN [k \in DOMAIN buckets |-> Append(buckets[k], p)]
    ELSE buckets

BucketAppend(buckets, section, p) ==
    IF section # None /\ section[1] # <<>> /\ section[1] \in DOMAIN buckets
    THEN [buckets EXCEPT ![section[1]] = Append(@, p)]
    ELSE buckets

\* lines 305-328: the paragraph goes to the accumulator of the current zone
ZoneAppend(p) ==
    /\ UNCHANGED <<current_section, section_titles, section_order,
                   home_preview_section_keys>>
    /\ menu_items' =
            IF current_section = Some(KeyMenu) /\ p.style \in H3Styles /\ p.text # <<>>
            THEN Append(menu_items, p.text) ELSE menu_items
    /\ title_lines' =
            IF current_section = Some(KeyTitle) /\ p.text # <<>>
            THEN Append(title_lines, p.text) ELSE title_lines
    /\ title_image_rel_ids' =
            IF current_section = Some(KeyTitle)
            THEN MergeImages(title_image_rel_ids, p.image_rel_ids)
            ELSE title_image_rel_ids
    /\ home_content_blocks' =
            IF current_section = Some(KeyContent)
            THEN Append(home_content_blocks, p) ELSE home_content_blocks
    /\ footer_lines' =
            IF current_section = Some(FooterZone)
            THEN FooterAppend(footer_lines, p) ELSE footer_lines
    /\ section_paragraphs' =
            IF current_section \in {Some(KeyMenu), Some(KeyTitle), Some(KeyContent),
                                    Some(FooterZone)}
            THEN section_paragraphs
            ELSE BucketAppend(section_paragraphs, current_section, p)

\* One iteration of the loop of lines 257-328
Classify(p) ==
    LET h1 == NextH1(p, current_h1)
    IN  /\ current_h1' = h1
        /\ IF IsFooterHeading(p, h1, home_title) THEN EnterFooter
           ELSE IF IsPreviewHeading(p, h1, home_title) THEN EnterPreview(p)
           ELSE IF IsSectionHeading(p, h1, home_title, menu_items) THEN EnterSection(p)
           ELSE ZoneAppend(p)

-----------------------------------------------------------------------------
(* parse_docx: assembling SiteData (lines 330-361) *)

FallbackMenu_reversed(titles, order) ==
    [i \in DOMAIN order |-> titles[order[Len(order) + 1 - i]]]

\* line 331
FallbackMenu(titles, order) == [i \in DOMAIN order |-> titles[order[i]]]

\* [line.strip() for line in lines if line.strip()]
StrippedLines(lines) ==
    LET stripped == [i \in DOMAIN lines |-> Strip(lines[i])]
    IN  SelectSeqOf(stripped, {l \in Range(stripped) : l # <<>>})

BrJoin_space(lines) == Join(Str(" "), lines)

BrJoin(lines) == Join(Str("<br>"), lines)

MenuSection_menuTitle(i, menu_name, titles, buckets) ==
    LET section_key == normalize_section(menu_name)
        slug == IF section_key = KeyNews THEN Str("news")
                ELSE slugify(menu_name, Str("section-") \o IntToStr(i))
    IN  [ title |-> menu_name,
          slug |-> slug,
          items |-> build_items_for_section(menu_name, slug, DictGet(buckets, section_key, <<>>)) ]

\* lines 342-349
MenuSection(i, menu_name, titles, buckets) ==
    LET section_key == normalize_section(menu_name)
        title == DictGet(titles, section_key, menu_name)
        slug == IF section_key = KeyNews THEN Str("news")
                ELSE slugify(title, Str("section-") \o IntToStr(i))
    IN  [ title |-> title,
          slug |-> slug,
          items |-> build_items_for_section(title, slug, DictGet(buckets, section_key, <<>>)) ]

\* lines 330-361
SiteData ==
    LET items == IF menu_items = <<>> THEN FallbackMenu(section_titles, section_order)
                 ELSE menu_items
        normalized_title_lines == StrippedLines(title_lines)
        title == IF normalized_title_lines # <<>> THEN normalized_title_lines[1]
                 ELSE home_title
    IN  [ home_title |-> home_title,
          site_title |-> title,
          site_header_title_main |->
              IF normalized_title_lines # <<>> THEN normalized_title_lines[1] ELSE title,
          site_header_title_sub |->
              IF Len(normalized_title_lines) > 1 THEN BrJoin(Tail(normalized_title_lines))
              ELSE <<>>,
          site_footer_text |-> BrJoin(StrippedLines(footer_lines)),
          site_logo_rel_id |->
              IF title_image_rel_ids # <<>> THEN Some(title_image_rel_ids[1]) ELSE None,
          home_content_blocks |-> home_content_blocks,
          menu_sections |->
              [i \in DOMAIN items |-> MenuSection(i, items[i], section_titles, section_paragraphs)],
          home_preview_section_keys |-> home_preview_section_keys ]

-----------------------------------------------------------------------------
(* render_site: the list pages of a menu section (lines 1315-1346) *)

ITEMS_PER_PAGE == 10

TotalPages_floor(items) ==
    LET pages_needed == Len(items) \div ITEMS_PER_PAGE
    IN  IF pages_needed > 1 THEN pages_needed ELSE 1

\* max(1, math.ceil(len(section.items) / ITEMS_PER_PAGE))
TotalPages(items) ==
    LET pages_needed == (Len(items) + ITEMS_PER_PAGE - 1) \div ITEMS_PER_PAGE
    IN  IF pages_needed > 1 THEN pages_needed ELSE 1

\* section.items[offset: offset + ITEMS_PER_PAGE]
PageItems(items, n) ==
    LET offset == (n - 1) * ITEMS_PER_PAGE
        last == IF offset + ITEMS_PER_PAGE < Len(items) THEN offset + ITEMS_PER_PAGE
                ELSE Len(items)
    IN  SubSeq(items, offset + 1, last)

BaseUrl(slug) == Str("/") \o slug \o Str("/")

PageUrl(slug, n) == Str("/") \o slug \o Str("/page/") \o IntToStr(n) \o Str("/")

\* permalink of the front matter
Permalink(slug, n) == IF n = 1 THEN BaseUrl(slug) ELSE PageUrl(slug, n)

PrevUrl_paged(slug, n) == IF n > 1 THEN PageUrl(slug, n - 1) ELSE <<>>

\* lines 1323-1324
PrevUrl(slug, n) ==
    IF n > 1 THEN (IF n = 2 THEN BaseUrl(slug) ELSE PageUrl(slug, n - 1)) ELSE <<>>

\* lines 1325-1326
NextUrl(slug, n, total_pages) == IF n < total_pages THEN PageUrl(slug, n + 1) ELSE <<>>

\* lines 1341-1345
PageTarget(slug, n) ==
    IF n = 1 THEN slug \o Str("/index.md")
    ELSE slug \o Str("/page/") \o IntToStr(n) \o Str("/index.md")

\* The file written by one iteration: its path and its front matter
ListPage(sect, n) ==
    [ target |-> PageTarget(sect.slug, n),
      permalink |-> Permalink(sect.slug, n),
      base_url |-> BaseUrl(sect.slug),
      current_page |-> n,
      total_pages |-> TotalPages(sect.items),
      prev_url |-> PrevUrl(sect.slug, n),
      next_url |-> NextUrl(sect.slug, n, TotalPages(sect.items)),
      items |-> PageItems(sect.items, n) ]

-----------------------------------------------------------------------------
(* Inputs *)

\* "Меню", "Название", "Контент", "Новости", "О нас", "Нижний колонтитул"
TxtMenu == <<"CY_em", "cy_ie", "cy_en", "cy_yu">>
TxtTitle == <<"CY_en", "cy_a", "cy_ze", "cy_ve", "cy_a", "cy_en", "cy_i", "cy_ie">>
TxtContent == <<"CY_ka", "cy_o", "cy_en", "cy_te", "cy_ie", "cy_en", "cy_te">>
TxtNews == <<"CY_en", "cy_o", "cy_ve", "cy_o", "cy_es", "cy_te", "cy_i">>
TxtAbout == <<"CY_o", " ", "cy_en", "cy_a", "cy_es">>
TxtFooter ==
    <<"CY_en", "cy_i", "cy_zhe", "cy_en", "cy_i", "cy_short_i", " ",
      "cy_ka", "cy_o", "cy_el", "cy_o", "cy_en", "cy_te", "cy_i", "cy_te", "cy_u", "cy_el">>
TxtHome == Str("Home")
TxtOther == Str("Z")
TxtX == Str("x")

\* "Дата", "Дата: 1", "Видео", "Видео u"
TxtDate == <<"CY_de", "cy_a", "cy_te", "cy_a">>
TxtDateInline == TxtDate \o Str(": 1")
TxtVideo == <<"CY_ve", "cy_i", "cy_de", "cy_ie", "cy_o">>
TxtVideoInline == TxtVideo \o Str(" u")
TxtA == Str("A")
TxtA2 == Str("A!")
TxtSym == Str("!?")
TxtNote == Str("n")

\* The paragraphs a section bucket is drawn from
SegParagraphs ==
    { RawParagraph("3", TxtA, <<>>),
      RawParagraph("Heading3", TxtA2, <<>>),
      RawParagraph("3", TxtSym, <<"r1">>),
      RawParagraph("3", <<>>, <<"r2">>),
      RawParagraph("4", TxtDate, <<>>),
      RawParagraph("4", TxtDateInline, <<>>),
      RawParagraph("Heading4", TxtVideo, <<>>),
      RawParagraph("4", TxtVideoInline, <<>>),
      RawParagraph("4", TxtNote, <<>>),
      RawParagraph("None", TxtX, <<>>),
      RawParagraph("None", <<>>, <<"r1">>) }

\* "меню": a menu entry that names a base zone, spelled unlike its heading
TxtMenuLower == Lower(TxtMenu)

\* The paragraphs the document stream is drawn from (after its first one)
DocParagraphs ==
    { RawParagraph("2", TxtMenu, <<>>),
      RawParagraph("3", TxtNews, <<>>),
      RawParagraph("3", TxtAbout, <<>>),
      RawParagraph("3", TxtMenuLower, <<>>),
      RawParagraph("Heading2", TxtNews, <<>>),
      RawParagraph("2", TxtAbout, <<>>),
      RawParagraph("1", TxtNews, <<>>),
      RawParagraph("Heading1", TxtOther, <<>>),
      RawParagraph("1", TxtHome, <<>>),
      RawParagraph("2", TxtFooter, <<>>),
      RawParagraph("2", TxtTitle, <<>>),
      RawParagraph("2", TxtContent, <<>>),
      RawParagraph("None", TxtX, <<>>),
      RawParagraph("None", <<>>, <<"r1", "r2">>) }

MaxSegParas == 4
MaxDocParas == 4
MaxOver == 4

\* Bodies around the excerpt limit: n letters, one of them (position at,
\* 0 for none) replaced by the character ws, then optionally a second block.
ExcerptBody(n, at, ws, more) ==
    [i \in 1..n |-> IF i = at THEN ws ELSE "a"]
        \o (IF more THEN Str("\n\nbb") ELSE <<>>)

ExcerptBodies ==
    { ExcerptBody(n, at, ws, more) :
        n \in (ExcerptLimit - 2)..(ExcerptLimit + MaxOver),
        at \in {0} \cup ((ExcerptKeep - 2)..(ExcerptKeep + 1)),
        ws \in {" ", "\n"},
        more \in BOOLEAN }

-----------------------------------------------------------------------------
(* Specifications *)

EIdle == epc = "idle" /\ ebody = <<>> /\ excerpt = <<>>

SIdle ==
    /\ spc = "idle"
    /\ section_title = <<>>
    /\ section_slug = <<>>
    /\ paragraphs = <<>>
    /\ seg = SegInit

\* lines 242-255
CStart(pc0) ==
    /\ pc = pc0
    /\ home_title = TxtHome
    /\ paragraph = RawParagraph("1", TxtHome, <<>>)
    /\ nread = 0
    /\ menu_items = <<>>
    /\ title_lines = <<>>
    /\ title_image_rel_ids = <<>>
    /\ footer_lines = <<>>
    /\ home_content_blocks = <<>>
    /\ section_paragraphs = <<>>
    /\ section_titles = <<>>
    /\ section_order = <<>>
    /\ home_preview_section_keys = <<>>
    /\ current_section = None
    /\ current_h1 = Some(normalize_section(TxtHome))
    /\ site = None

\* ---- parse_docx
MIdle ==
    /\ mpc = "idle"
    /\ nxml = 0
    /\ raw_paragraphs = <<>>
    /\ error = None
    /\ rendered = FALSE

PIdle ==
    /\ lpc = "idle"
    /\ menu_section = [slug |-> <<>>, items |-> <<>>]
    /\ page_number = 0
    /\ pages = <<>>

Init == CStart("loop") /\ SIdle /\ EIdle /\ MIdle /\ PIdle

Loop ==
    /\ pc = "loop"
    /\ nread < MaxDocParas
    /\ \E p \in DocParagraphs :
          /\ paragraph' = p
          /\ nread' = nread + 1
          /\ Classify(p)
    /\ UNCHANGED <<pc, home_title, site, svars, evars, pvars, mvars>>

Finish ==
    /\ pc = "loop"
    /\ pc' = "done"
    /\ site' = Some(SiteData)
    /\ UNCHANGED <<home_title, paragraph, nread, menu_items, title_lines,
                   title_image_rel_ids, footer_lines, home_content_blocks,
                   section_paragraphs, section_titles, section_order,
                   home_preview_section_keys, current_section, current_h1,
                   svars, evars, pvars, mvars>>

Next == Loop \/ Finish

Spec == Init /\ [][Next]_vars

\* ---- build_items_for_section on a bucket of its own
InitSeg ==
    /\ spc = "loop"
    /\ section_title = Str("S")
    /\ section_slug = Str("s")
    /\ paragraphs = <<>>
    /\ seg = SegInit
    /\ CStart("idle")
    /\ EIdle
    /\ PIdle
    /\ MIdle

SegLoop ==
    /\ spc = "loop"
    /\ Len(paragraphs) < MaxSegParas
    /\ \E p \in SegParagraphs :
          /\ paragraphs' = Append(paragraphs, p)
          /\ seg' = SegStep(seg, p, section_title, section_slug)
    /\ UNCHANGED <<spc, section_title, section_slug, cvars, evars, pvars, mvars>>

SegReturn ==
    /\ spc = "loop"
    /\ spc' = "done"
    /\ seg' = flush_item(seg, section_slug)
    /\ UNCHANGED <<section_title, section_slug, paragraphs, cvars, evars, pvars, mvars>>

NextSeg == SegLoop \/ SegReturn

SpecSeg == InitSeg /\ [][NextSeg]_vars

\* ---- build_items_for_section on a bucket of video markers and values
VideoUrls == {Str("u"), Str("v/w")}
VideoQuotes == {"\"", "'"}

\* <iframe src="URL"> with either quote
EmbedTag(q, url) == Str("<iframe src=") \o <<q>> \o url \o <<q>> \o Str(">")

\* src\=\"URL" : the attribute written with a backslash after src and after =
EscapedAttr(q, url) == Str("src\\=\\") \o <<q>> \o url \o <<q>>

VideoValues ==
    VideoUrls
        \cup {EmbedTag(q, url) : q \in VideoQuotes, url \in VideoUrls}
        \cup {EscapedAttr(q, url) : q \in VideoQuotes, url \in VideoUrls}

VideoParagraphs ==
    { RawParagraph("3", TxtA, <<>>), RawParagraph("4", TxtVideo, <<>>) }
        \cup {RawParagraph("None", v, <<>>) : v \in VideoValues}
        \cup {RawParagraph("4", TxtVideo \o Str(": ") \o v, <<>>) : v \in VideoValues}

MaxVideoParas == 2

VideoLoop ==
    /\ spc = "loop"
    /\ Len(paragraphs) < MaxVideoParas
    /\ \E p \in VideoParagraphs :
          /\ paragraphs' = Append(paragraphs, p)
          /\ seg' = SegStep(seg, p, section_title, section_slug)
    /\ UNCHANGED <<spc, section_title, section_slug, cvars, evars, pvars, mvars>>

NextVideo == VideoLoop \/ SegReturn

SpecVideo == InitSeg /\ [][NextVideo]_vars

\* ---- main: decoding, parse_docx, render_site
\* A w:p element as the decoding step reads it: the value of its w:pStyle
\* ("None" when absent), the texts of its w:t elements, and the r:embed
\* attribute of each a:blip ("" when the attribute is absent or empty)
XmlParagraph(style, texts, embeds) ==
    [style |-> style, texts |-> texts, embeds |-> embeds]

XmlParagraphs ==
    { XmlParagraph("None", <<>>, <<>>),
      XmlParagraph("None", <<Str("  ")>>, <<"">>),
      XmlParagraph("1", <<TxtHome>>, <<>>),
      XmlParagraph("1", <<TxtNews>>, <<>>),
      XmlParagraph("2", <<TxtContent>>, <<>>),
      XmlParagraph("None", <<Str(" x"), Str("y ")>>, <<"r1", "", "r2">>),
      XmlParagraph("None", <<>>, <<"r1", "r1">>) }

MaxXmlParas == 3

\* lines 229-235
DecodeParagraph(para) ==
    RawParagraph(para.style,
                 Strip(Flatten(para.texts)),
                 SelectSeqOf(para.embeds, {e \in Range(para.embeds) : e # ""}))

InitMain ==
    /\ mpc = "decode"
    /\ nxml = 0
    /\ raw_paragraphs = <<>>
    /\ error = None
    /\ rendered = FALSE
    /\ CStart("idle")
    /\ SIdle
    /\ EIdle
    /\ PIdle

\* lines 228-237: one iteration of the decoding loop
Decode ==
    /\ mpc = "decode"
    /\ nxml < MaxXmlParas
    /\ \E para \in XmlParagraphs :
          LET raw == DecodeParagraph(para)
          IN  raw_paragraphs' =
                  IF raw.text # <<>> \/ raw.image_rel_ids # <<>>
                  THEN Append(raw_paragraphs, raw)
                  ELSE raw_paragraphs
    /\ nxml' = nxml + 1
    /\ UNCHANGED <<mpc, error, rendered, cvars, svars, evars, pvars>>

RaiseEmpty_swallow ==
    /\ mpc = "decode"
    /\ raw_paragraphs = <<>>
    /\ nxml > 0
    /\ mpc' = "render"
    /\ UNCHANGED <<nxml, raw_paragraphs, error, rendered, cvars, svars, evars, pvars>>

\* lines 239-240; main has no handler, so the exception ends the run
RaiseEmpty ==
    /\ mpc = "decode"
    /\ raw_paragraphs = <<>>
    /\ mpc' = "raised"
    /\ error' = Some("ValueError")
    /\ UNCHANGED <<nxml, raw_paragraphs, rendered, cvars, svars, evars, pvars>>

\* lines 242-255
ParseStart ==
    /\ mpc = "decode"
    /\ raw_paragraphs # <<>>
    /\ mpc' = "parse"
    /\ pc' = "loop"
    /\ home_title' = raw_paragraphs[1].text
    /\ paragraph' = raw_paragraphs[1]
    /\ nread' = 0
    /\ menu_items' = <<>>
    /\ title_lines' = <<>>
    /\ title_image_rel_ids' = <<>>
    /\ footer_lines' = <<>>
    /\ home_content_blocks' = <<>>
    /\ section_paragraphs' = <<>>
    /\ section_titles' = <<>>
    /\ section_order' = <<>>
    /\ home_preview_section_keys' = <<>>
    /\ current_section' = None
    /\ current_h1' = Some(normalize_section(raw_paragraphs[1].text))
    /\ UNCHANGED <<site, nxml, raw_paragraphs, error, rendered, svars, evars, pvars>>

\* lines 257-328 over raw_paragraphs[1:]
MainLoop ==
    /\ mpc = "parse"
    /\ pc = "loop"
    /\ nread + 1 < Len(raw_paragraphs)
    /\ paragraph' = raw_paragraphs[nread + 2]
    /\ nread' = nread + 1
    /\ Classify(raw_paragraphs[nread + 2])
    /\ UNCHANGED <<pc, home_title, site, svars, evars, pvars, mvars>>

\* lines 330-362 and the return to main at line 1350
MainFinish ==
    /\ mpc = "parse"
    /\ pc = "loop"
    /\ nread + 1 = Len(raw_paragraphs)
    /\ pc' = "done"
    /\ site' = Some(SiteData)
    /\ mpc' = "render"
    /\ UNCHANGED <<home_title, paragraph, nread, menu_items, title_lines,
                   title_image_rel_ids, footer_lines, home_content_blocks,
                   section_paragraphs, section_titles, section_order,
                   home_preview_section_keys, current_section, current_h1,
                   nxml, raw_paragraphs, error, rendered, svars, evars, pvars>>

\* lines 1351-1354: render_site removes the old outputs and writes the site
Render ==
    /\ mpc = "render"
    /\ mpc' = "done"
    /\ rendered' = TRUE
    /\ UNCHANGED <<nxml, raw_paragraphs, error, cvars, svars, evars, pvars>>

NextMain == Decode \/ RaiseEmpty \/ ParseStart \/ MainLoop \/ MainFinish \/ Render

SpecMain == InitMain /\ [][NextMain]_vars

\* ---- build_items_for_section on a bucket with one heading of varied title
\* The characters a varied title is made of: a Latin letter, a digit, "-",
\* a space, an upper-case Cyrillic letter spelled with two Latin letters
\* ("Ж") and one spelled with none ("ь")
TitleChars == {"b", "7", "-", " ", "CY_zhe", "cy_soft"}

MaxTitleLen == 3

RECURSIVE TitlesOfLen(_)
TitlesOfLen(n) ==
    IF n = 0 THEN {<<>>}
    ELSE {Append(t, c) : t \in TitlesOfLen(n - 1), c \in TitleChars}

\* Paragraph texts are trimmed by the decoding step (line 230)
SlugTitles == {t \in UNION {TitlesOfLen(n) : n \in 1..MaxTitleLen} : Strip(t) = t}

\* A heading whose title is made of symbols only, and a content paragraph
SlugFillers == { RawParagraph("3", Str("?"), <<>>), RawParagraph("None", TxtX, <<>>) }

MaxSlugFill == 2

SlugLoop ==
    /\ spc = "loop"
    /\ \E p \in SlugFillers \cup {RawParagraph("3", t, <<>>) : t \in SlugTitles} :
          /\ IF p \in SlugFillers
             THEN Cardinality({i \in DOMAIN paragraphs : paragraphs[i] \in SlugFillers})
                      < MaxSlugFill
             ELSE \A i \in DOMAIN paragraphs : paragraphs[i] \in SlugFillers
          /\ paragraphs' = Append(paragraphs, p)
          /\ seg' = SegStep(seg, p, section_title, section_slug)
    /\ UNCHANGED <<spc, section_title, section_slug, cvars, evars, pvars, mvars>>

NextSlug == SlugLoop \/ SegReturn

SpecSlug == InitSeg /\ [][NextSlug]_vars

\* ---- parse_docx on a stream of zone headings, with the stream kept
\* "новости": the news heading spelled in lower case
TxtNewsLower == Lower(TxtNews)

ZoneParagraphs ==
    { RawParagraph("2", TxtMenu, <<>>),
      RawParagraph("3", TxtMenuLower, <<>>),
      RawParagraph("3", TxtNews, <<>>),
      RawParagraph("1", TxtMenu, <<>>),
      RawParagraph("1", TxtNews, <<>>),
      RawParagraph("Heading1", TxtNewsLower, <<>>),
      RawParagraph("1", TxtOther, <<>>),
      RawParagraph("2", TxtFooter, <<>>),
      RawParagraph("Heading2", TxtAbout, <<>>),
      RawParagraph("2", TxtContent, <<>>),
      RawParagraph("None", TxtX, <<"r1">>) }

MaxZoneParas == 4

\* raw_paragraphs holds the part of the stream read so far
InitZone ==
    /\ CStart("loop")
    /\ SIdle
    /\ EIdle
    /\ PIdle
    /\ mpc = "idle"
    /\ nxml = 0
    /\ raw_paragraphs = <<RawParagraph("1", TxtHome, <<>>)>>
    /\ error = None
    /\ rendered = FALSE

ZoneLoop ==
    /\ pc = "loop"
    /\ nread < MaxZoneParas
    /\ \E p \in ZoneParagraphs :
          /\ paragraph' = p
          /\ nread' = nread + 1
          /\ raw_paragraphs' = Append(raw_paragraphs, p)
          /\ Classify(p)
    /\ UNCHANGED <<pc, home_title, site, svars, evars, pvars, mpc, nxml, error, rendered>>

NextZone == ZoneLoop \/ Finish

SpecZone == InitZone /\ [][NextZone]_vars

\* ---- render_site: the list pages of one menu section
PageSlugs == {Str("news"), Str("s")}

MaxItems == 31

\* An item of the section stands as its index, which is its position
InitPages ==
    /\ lpc = "pages"
    /\ \E slug \in PageSlugs, n \in 0..MaxItems :
          menu_section = [slug |-> slug, items |-> [k \in 1..n |-> k]]
    /\ page_number = 1
    /\ pages = <<>>
    /\ CStart("idle")
    /\ SIdle
    /\ EIdle
    /\ MIdle

\* lines 1317-1346: one iteration of the loop over range(1, total_pages + 1)
WritePage ==
    /\ lpc = "pages"
    /\ page_number <= TotalPages(menu_section.items)
    /\ pages' = Append(pages, ListPage(menu_section, page_number))
    /\ page_number' = page_number + 1
    /\ UNCHANGED <<lpc, menu_section, cvars, svars, evars, mvars>>

\* the range is exhausted
PagesDone ==
    /\ lpc = "pages"
    /\ page_number > TotalPages(menu_section.items)
    /\ lpc' = "done"
    /\ UNCHANGED <<menu_section, page_number, pages, cvars, svars, evars, mvars>>

NextPages == WritePage \/ PagesDone

SpecPages == InitPages /\ [][NextPages]_vars

\* ---- item_excerpt on a body of its own
InitExcerpt ==
    /\ epc = "call"
    /\ ebody \in ExcerptBodies
    /\ excerpt = <<>>
    /\ CStart("idle")
    /\ SIdle
    /\ MIdle
    /\ PIdle

ItemExcerpt ==
    /\ epc = "call"
    /\ epc' = "done"
    /\ excerpt' = item_excerpt(ebody)
    /\ UNCHANGED <<ebody, cvars, svars, mvars, pvars>>

NextExcerpt == ItemExcerpt

SpecExcerpt == InitExcerpt /\ [][NextExcerpt]_vars

-----------------------------------------------------------------------------
(* Properties of build_items_for_section (SpecSeg) *)

LastOf(ps) == ps[Len(ps)]

\* The loop of build_items_for_section has just read one more paragraph
SegRead == spc = "loop" /\ spc' = "loop" /\ Len(paragraphs') = Len(paragraphs) + 1

IsDateLatch(p) == IsDateHeading(p) /\ parse_heading4_date(p.text)[2] = <<>>
IsVideoLatch(p) == IsVideoHeading(p) /\ parse_heading4_video(p.text)[2] = <<>>
IsMarker(p) == IsDateHeading(p) \/ IsVideoHeading(p)
IsPlainText(p) == p.text # <<>> /\ ~IsHeading3(p) /\ ~IsMarker(p)

NumHeading3(ps) == Cardinality({i \in DOMAIN ps : IsHeading3(ps[i])})

\* The paragraphs in front of the first depth-3 heading of the bucket
BeforeFirstHeading3(ps) ==
    {i \in DOMAIN ps : \A j \in 1..i : ~IsHeading3(ps[j])}

\* C2: the slugs of the items of one section are pairwise distinct.
C2_SlugsDistinct ==
    \A i, j \in DOMAIN seg.items :
        i # j => seg.items[i].slug # seg.items[j].slug

\* C3 as claimed: the number of items is the number of depth-3 headings plus
\* one iff any paragraph that is not a depth-3 heading precedes the first one.
C3_ItemCountAnyContent ==
    spc = "done" =>
        Len(seg.items) = NumHeading3(paragraphs)
            + (IF BeforeFirstHeading3(paragraphs) # {} THEN 1 ELSE 0)

\* C3 as amended: the number of items is the number of depth-3 headings (with
\* text) plus one iff a paragraph that is neither such a heading nor a depth-4
\* date/video marker precedes the first depth-3 heading.
C3_ItemCount ==
    spc = "done" =>
        Len(seg.items) = NumHeading3(paragraphs)
            + (IF \E i \in BeforeFirstHeading3(paragraphs) : ~IsMarker(paragraphs[i])
               THEN 1 ELSE 0)

C3_Witness ==
    /\ spc = "done"
    /\ Len(paragraphs) = 3
    /\ IsDateLatch(paragraphs[1])
    /\ IsPlainText(paragraphs[2])
    /\ IsHeading3(paragraphs[3])
    /\ Len(seg.items) = 2

\* A date marker with empty remainder was read and only paragraphs without
\* text came after it
DatePending(ps) ==
    \E i \in DOMAIN ps :
        /\ IsDateLatch(ps[i])
        /\ \A j \in (i + 1)..Len(ps) : ps[j].text = <<>>

DateTaken(p) ==
    /\ seg'.current_title # None
    /\ seg'.current_date = p.text
    /\ ~seg'.waiting_date_value
    /\ seg'.current_body = seg.current_body

\* C4 as claimed: after a date marker with empty remainder, the next paragraph
\* with text becomes the date of the current item, clears the latch and stays
\* out of the body.
C4_DateLatchAnyParagraph ==
    [][ (SegRead /\ DatePending(paragraphs) /\ LastOf(paragraphs').text # <<>>)
            => DateTaken(LastOf(paragraphs')) ]_vars

\* C4 as amended: the same, for a next paragraph with text that is neither a
\* depth-3 heading nor a depth-4 date/video marker.
C4_DateLatch ==
    [][ (SegRead /\ DatePending(paragraphs) /\ IsPlainText(LastOf(paragraphs')))
            => DateTaken(LastOf(paragraphs')) ]_vars

C4_Witness ==
    /\ spc = "loop"
    /\ Len(paragraphs) = 3
    /\ IsHeading3(paragraphs[1])
    /\ IsDateLatch(paragraphs[2])
    /\ IsPlainText(paragraphs[3])
    /\ seg.current_date = paragraphs[3].text
    /\ seg.current_body = <<>>
    /\ ~seg.waiting_date_value

\* C5: a marker with empty remainder directly followed by a depth-3 heading
\* stays unresolved: the paragraph after the heading is not taken as the date
\* or video value, it is body text of the item the heading starts.
C5_LatchDroppedAtBoundary ==
    [][ ( /\ SegRead
          /\ Len(paragraphs) >= 2
          /\ IsDateLatch(paragraphs[Len(paragraphs) - 1])
                \/ IsVideoLatch(paragraphs[Len(paragraphs) - 1])
          /\ IsHeading3(LastOf(paragraphs))
          /\ IsPlainText(LastOf(paragraphs')) )
        => ( /\ seg'.current_date = <<>>
             /\ seg'.current_body = <<LastOf(paragraphs').text>> ) ]_vars

\* C6: a marker with empty remainder directly followed by another depth-4
\* marker of the other kind stays unresolved: the paragraph after the second
\* marker is not taken as the value of the first.
C6_LatchDroppedAtMarker ==
    [][ ( /\ SegRead
          /\ Len(paragraphs) >= 2
          /\ IsPlainText(LastOf(paragraphs')) )
        => ( /\ ( /\ IsDateLatch(paragraphs[Len(paragraphs) - 1])
                  /\ IsVideoHeading(LastOf(paragraphs)) )
                => seg'.current_date = seg.current_date
             /\ ( /\ IsVideoLatch(paragraphs[Len(paragraphs) - 1])
                  /\ IsDateHeading(LastOf(paragraphs))
                  /\ ~IsDateLatch(LastOf(paragraphs)) )
                => seg'.current_body = Append(seg.current_body, LastOf(paragraphs').text) ) ]_vars

\* The paragraph just read resolves a video marker with value v: it is the
\* marker itself with v as its inline remainder, or the paragraph with text v
\* right after a marker with empty remainder
VideoResolved(v) ==
    /\ SegRead
    /\ \/ LastOf(paragraphs') = RawParagraph("4", TxtVideo \o Str(": ") \o v, <<>>)
       \/ /\ paragraphs # <<>>
          /\ IsVideoLatch(LastOf(paragraphs))
          /\ LastOf(paragraphs') = RawParagraph("None", v, <<>>)

VideoAppended(url) ==
    /\ seg'.current_body = Append(seg.current_body, VideoBlock(url))
    /\ seg'.current_date = seg.current_date
    /\ seg'.current_images = seg.current_images
    /\ seg'.items = seg.items

\* C11: a video value that is an embed tag with src="URL" (either quote) puts
\* an iframe block with source URL alone into the body; any other value puts a
\* block with the trimmed text as source; no other item field changes.
C11_VideoSource ==
    [][ /\ \A q \in VideoQuotes, url \in VideoUrls :
              VideoResolved(EmbedTag(q, url)) => VideoAppended(url)
        /\ \A url \in VideoUrls :
              VideoResolved(url) => VideoAppended(url)
      ]_vars

\* A non-empty text of [a-z0-9] runs separated by single "-"
WellFormedSlug(slug) ==
    /\ slug # <<>>
    /\ \A i \in DOMAIN slug : slug[i] \in SlugChars \cup {"-"}
    /\ slug[1] # "-"
    /\ slug[Len(slug)] # "-"
    /\ \A i \in 1..(Len(slug) - 1) : ~(slug[i] = "-" /\ slug[i + 1] = "-")

HasSlugChar(title) == Range(transliterate(title)) \cap SlugChars # {}

\* C15: the k-th item of a section whose title, transliterated and
\* lower-cased, has no character of [a-z0-9] gets the slug
\* "<section-slug>-item-<k>"; any other title gets a non-empty slug of
\* [a-z0-9] runs separated by single "-", with no leading or trailing "-".
C15_SlugFallback ==
    \A k \in DOMAIN seg.items :
        IF HasSlugChar(seg.items[k].title)
        THEN WellFormedSlug(seg.items[k].slug)
        ELSE seg.items[k].slug = section_slug \o Str("-item-") \o IntToStr(k)

C15_Witness ==
    /\ spc = "done"
    /\ Len(seg.items) = 2
    /\ seg.items[1].title = <<"CY_zhe", " ", "b">>
    /\ seg.items[1].slug = Str("zh-b")
    /\ seg.items[2].title = Str("?")
    /\ seg.items[2].slug = Str("s-item-2")

\* The paragraph just read opened an item without being a depth-3 heading
OpenedImplicitly ==
    /\ SegRead
    /\ ~IsHeading3(LastOf(paragraphs'))
    /\ seg.current_title = None
    /\ seg'.current_title # None

\* C19: an item is opened implicitly only while the bucket has shown no
\* depth-3 heading and no item exists, and it is titled with the section's
\* display title; an open item stays open while paragraphs that are no
\* depth-3 heading are read; so the returned list has at most one implicit
\* item, and it is the first.
C19_OneImplicitItem ==
    /\ [][ /\ OpenedImplicitly =>
                  /\ NumHeading3(paragraphs) = 0
                  /\ seg.items = <<>>
                  /\ seg'.current_title = Some(section_title)
           /\ SegRead /\ NumHeading3(paragraphs') > 0 => seg'.current_title # None
         ]_vars
    /\ [](spc = "done" =>
            /\ Len(seg.items) <= NumHeading3(paragraphs) + 1
            /\ Len(seg.items) = NumHeading3(paragraphs) + 1 =>
                   seg.items[1].title = section_title)

C19_Witness ==
    /\ spc = "done"
    /\ Len(paragraphs) = 3
    /\ IsPlainText(paragraphs[1])
    /\ IsHeading3(paragraphs[2])
    /\ IsPlainText(paragraphs[3])
    /\ Len(seg.items) = 2
    /\ seg.items[1].title = section_title
    /\ seg.items[2].title = paragraphs[2].text

\* C20: the k-th item of the list has index k.
C20_IndexIsPosition ==
    \A k \in DOMAIN seg.items : seg.items[k].index = k

C20_Witness ==
    /\ spc = "done"
    /\ Len(seg.items) = 3
    /\ \A k \in 1..3 : seg.items[k].index = k

\* C26: the item that a depth-3 heading opens starts with no date, no body
\* part, no image and no pending latch, so that whatever it ends up with
\* comes from paragraphs read after the heading; this holds also when only
\* depth-4 markers came before the first depth-3 heading.
C26_ItemStartsClean ==
    [][ SegRead /\ IsHeading3(LastOf(paragraphs')) =>
            /\ seg'.current_title = Some(LastOf(paragraphs').text)
            /\ seg'.current_date = <<>>
            /\ seg'.current_body = <<>>
            /\ seg'.current_images = <<>>
            /\ ~seg'.waiting_date_value
            /\ ~seg'.waiting_video_value
      ]_vars

\* C28: every image reference carried by a paragraph of the bucket is in
\* the image list of some returned item.
C28_NoImageLost ==
    spc = "done" =>
        \A i \in DOMAIN paragraphs :
            \A r \in Range(paragraphs[i].image_rel_ids) :
                \E k \in DOMAIN seg.items : r \in Range(seg.items[k].image_rel_ids)

-----------------------------------------------------------------------------
(* Properties of item_excerpt (SpecExcerpt) *)

\* The first blank-line-delimited block of the body, trimmed
FirstBlock(body) == Strip(FirstSplit(body))

\* C10 as claimed: a first block longer than 240 characters gives exactly 240
\* characters, its first 237 followed by "..."; a shorter one is unchanged.
C10_ExcerptExactly240 ==
    epc = "done" =>
        LET first == FirstBlock(ebody)
        IN  IF Len(first) > ExcerptLimit
            THEN /\ Len(excerpt) = ExcerptLimit
                 /\ excerpt = SubSeq(first, 1, ExcerptKeep) \o Str("...")
            ELSE excerpt = first

\* C10 as amended: a first block longer than 240 characters gives its first
\* 237 characters without their trailing whitespace, followed by "...": 240
\* characters exactly when the 237th character is not whitespace, fewer
\* otherwise; a block of at most 240 characters is returned unchanged.
C10_Excerpt ==
    epc = "done" =>
        LET first == FirstBlock(ebody)
        IN  IF Len(first) > ExcerptLimit
            THEN \E k \in 0..ExcerptKeep :
                    /\ excerpt = SubSeq(first, 1, k) \o Str("...")
                    /\ k = 0 \/ first[k] \notin Whitespace
                    /\ \A j \in (k + 1)..ExcerptKeep : first[j] \in Whitespace
                    /\ (Len(excerpt) = ExcerptLimit) <=> (first[ExcerptKeep] \notin Whitespace)
            ELSE excerpt = first

C10_Witness ==
    /\ epc = "done"
    /\ Len(FirstBlock(ebody)) > ExcerptLimit
    /\ FirstBlock(ebody)[ExcerptKeep] \in Whitespace
    /\ Len(excerpt) < ExcerptLimit

-----------------------------------------------------------------------------
(* Properties of the classification pass (Spec) *)

\* The loop of parse_docx has just read paragraph'
DocRead == pc = "loop" /\ pc' = "loop" /\ nread' = nread + 1

HomeKey == Some(normalize_section(home_title))

KeyOf(p) == normalize_section(p.text)

IsDepth1(p) == p.style \in H1Styles /\ p.text # <<>>
IsDepth2(p) == p.style \in H2Styles /\ p.text # <<>>

IsFooterMarker(p) == IsDepth2(p) /\ is_footer_section_key(KeyOf(p))

\* A depth-2 heading that is neither a base key nor a footer marker
IsCalloutMarker(p) ==
    IsDepth2(p) /\ KeyOf(p) \notin base_sections /\ ~is_footer_section_key(KeyOf(p))

\* The heading p, read under top-level heading h1 with the menu entries
\* declared so far, switches the current zone
OpensZone(p, h1, items) ==
    \/ h1 = HomeKey /\ (IsFooterMarker(p) \/ IsCalloutMarker(p))
    \/ IsDepth2(p) /\ KeyOf(p) \in base_sections
    \/ IsDepth2(p) /\ KeyOf(p) \in menu_key_set(items)
    \/ IsDepth1(p) /\ items # <<>> /\ KeyOf(p) \in menu_key_set(items)
    \/ IsDepth1(p) /\ items = <<>> /\ Some(KeyOf(p)) # HomeKey
            /\ KeyOf(p) \notin base_sections

NoDuplicates(seq) == \A i, j \in DOMAIN seq : i # j => seq[i] # seq[j]

\* C1: once the menu zone has declared entries, a depth-2 heading whose key is
\* one of them opens the dynamic section of that name (registered exactly
\* once), whatever the current top-level heading is.
C1_LegacyHeadingOpensSection ==
    ( /\ pc = "loop"
      /\ nread > 0
      /\ IsCalloutMarker(paragraph)
      /\ KeyOf(paragraph) \in menu_key_set(menu_items) )
    => ( /\ current_section = Some(KeyOf(paragraph))
         /\ KeyOf(paragraph) \in DOMAIN section_paragraphs
         /\ Cardinality({i \in DOMAIN section_order :
                            section_order[i] = KeyOf(paragraph)}) = 1 )

\* C7: a footer marker read under the home title switches to the footer zone
\* and changes nothing else; in the footer zone every paragraph that opens no
\* zone adds its non-empty text as a footer line and changes nothing else;
\* the footer text is the footer lines joined with "<br>".
C7_Footer ==
    [][ /\ ( /\ DocRead
             /\ IsFooterMarker(paragraph')
             /\ current_h1' = HomeKey )
           => ( /\ current_section' = Some(FooterZone)
                /\ UNCHANGED <<menu_items, section_titles, section_paragraphs,
                               section_order, home_preview_section_keys,
                               footer_lines, title_lines, home_content_blocks>> )
        /\ ( /\ DocRead
             /\ current_section = Some(FooterZone)
             /\ ~OpensZone(paragraph', current_h1', menu_items) )
           => ( /\ footer_lines' = IF paragraph'.text # <<>>
                                   THEN Append(footer_lines, paragraph'.text)
                                   ELSE footer_lines
                /\ UNCHANGED <<current_section, menu_items, section_titles,
                               section_paragraphs, section_order,
                               home_preview_section_keys>> )
        /\ (pc = "loop" /\ pc' = "done")
           => ( /\ site'[1].site_footer_text = BrJoin(footer_lines)
                /\ \A i \in DOMAIN footer_lines : footer_lines[i] # <<>> )
      ]_vars

C7_Witness ==
    /\ pc = "done"
    /\ nread = 4
    /\ IsFooterMarker(paragraph) = FALSE
    /\ current_section = Some(FooterZone)
    /\ Len(footer_lines) = 2
    /\ site[1].site_footer_text = TxtX \o Str("<br>") \o TxtX
    /\ section_order = <<>> /\ menu_items = <<>> /\ home_preview_section_keys = <<>>

\* C8: a callout heading read under the home title records its key if unseen,
\* leaves no zone current and creates no bucket, title or menu entry; with no
\* zone current, a paragraph that opens no zone is appended nowhere.
C8_PreviewCallout ==
    [][ /\ ( /\ DocRead
             /\ IsCalloutMarker(paragraph')
             /\ current_h1' = HomeKey )
           => ( /\ home_preview_section_keys' =
                      IF KeyOf(paragraph') \in Range(home_preview_section_keys)
                      THEN home_preview_section_keys
                      ELSE Append(home_preview_section_keys, KeyOf(paragraph'))
                /\ current_section' = None
                /\ UNCHANGED <<menu_items, section_titles, section_paragraphs,
                               section_order, title_lines, title_image_rel_ids,
                               footer_lines, home_content_blocks>> )
        /\ ( /\ DocRead
             /\ current_section = None
             /\ ~OpensZone(paragraph', current_h1', menu_items) )
           => UNCHANGED <<current_section, menu_items, section_titles,
                          section_paragraphs, section_order, title_lines,
                          title_image_rel_ids, footer_lines, home_content_blocks,
                          home_preview_section_keys>>
      ]_vars

C8_Witness ==
    /\ pc = "loop"
    /\ nread = 4
    /\ paragraph = RawParagraph("None", TxtX, <<>>)
    /\ current_section = None
    /\ home_preview_section_keys = <<KeyNews>>
    /\ DOMAIN section_paragraphs = {Lower(TxtOther)}
    /\ Len(section_paragraphs[Lower(TxtOther)]) = 1

\* C9: the home-preview key list never holds a key twice, and it only grows
\* at its end, by the key of the heading just read, when that key is not yet
\* in it.
C9_PreviewKeys ==
    [][ /\ NoDuplicates(home_preview_section_keys')
        /\ \/ home_preview_section_keys' = home_preview_section_keys
           \/ /\ DocRead
              /\ KeyOf(paragraph') \notin Range(home_preview_section_keys)
              /\ home_preview_section_keys' =
                    Append(home_preview_section_keys, KeyOf(paragraph'))
      ]_vars

C9_Witness ==
    /\ pc = "loop"
    /\ nread = 3
    /\ home_preview_section_keys = <<Lower(TxtAbout), KeyNews>>
    /\ IsCalloutMarker(paragraph)
    /\ KeyOf(paragraph) = Lower(TxtAbout)

-----------------------------------------------------------------------------
(* Properties of the classification pass on kept streams (SpecZone) *)

BaseZones == {Some(KeyMenu), Some(KeyTitle), Some(KeyContent)}

\* C21: a depth-1 heading never switches the current zone to menu, title or
\* content, and one whose key is a base key is never treated as a section
\* heading: it changes neither the current zone nor the registered titles.
C21_BaseZoneOnlyByDepth2 ==
    [][ DocRead /\ IsDepth1(paragraph') =>
            /\ current_section' \in BaseZones => current_section' = current_section
            /\ KeyOf(paragraph') \in base_sections =>
                   /\ current_section' = current_section
                   /\ section_titles' = section_titles
      ]_vars

\* The depth-1 heading p is eligible with the menu entries declared so far
EligibleDepth1(p, items) ==
    \/ items # <<>> /\ KeyOf(p) \in menu_key_set(items)
    \/ /\ items = <<>>
       /\ Some(KeyOf(p)) # HomeKey
       /\ KeyOf(p) \notin base_sections

IsPrefix(a, b) == Len(a) <= Len(b) /\ SubSeq(b, 1, Len(a)) = a

\* C22: a depth-1 heading opens a dynamic section (its key becomes the
\* current section and has a display title, a bucket and a place in the
\* section order) if and only if it is eligible with the menu entries
\* declared before it; otherwise it changes neither the current section nor
\* what is registered.  It declares no menu entry, and no step removes or
\* reorders a registered section.
C22_Depth1Eligibility ==
    [][ DocRead =>
            /\ IsPrefix(section_order, section_order')
            /\ IsDepth1(paragraph') =>
                   /\ menu_items' = menu_items
                   /\ IF EligibleDepth1(paragraph', menu_items)
                      THEN /\ current_section' = Some(KeyOf(paragraph'))
                           /\ KeyOf(paragraph') \in DOMAIN section_titles'
                           /\ KeyOf(paragraph') \in DOMAIN section_paragraphs'
                           /\ KeyOf(paragraph') \in Range(section_order')
                      ELSE /\ current_section' = current_section
                           /\ section_titles' = section_titles
                           /\ section_order' = section_order
                           /\ DOMAIN section_paragraphs' = DOMAIN section_paragraphs
      ]_vars

\* The key of the most recent depth-1 heading of the stream ps after its
\* first paragraph, or of the home title when there is none
LastDepth1Key(ps) ==
    LET at == {i \in 2..Len(ps) : IsDepth1(ps[i])}
    IN  IF at = {} THEN normalize_section(ps[1].text)
        ELSE KeyOf(ps[CHOOSE i \in at : \A j \in at : j <= i])

UnderHome(ps) == LastDepth1Key(ps) = normalize_section(home_title)

\* C23: a depth-2 heading switches to the footer zone, or records a preview
\* key, only while the most recent depth-1 heading's key (the home title if
\* there is none) is the normalized home title.
C23_OnlyUnderHome ==
    [][ DocRead /\ IsDepth2(paragraph') =>
            /\ current_section' = Some(FooterZone) /\ current_section # Some(FooterZone) =>
                   UnderHome(raw_paragraphs') /\ IsFooterMarker(paragraph')
            /\ home_preview_section_keys' # home_preview_section_keys =>
                   UnderHome(raw_paragraphs') /\ IsCalloutMarker(paragraph')
            /\ ~UnderHome(raw_paragraphs') =>
                   /\ footer_lines' = footer_lines \/ current_section = Some(FooterZone)
                   /\ home_preview_section_keys' = home_preview_section_keys
      ]_vars

C23_Witness ==
    /\ pc = "loop"
    /\ nread = 4
    /\ raw_paragraphs[4] = RawParagraph("1", TxtOther, <<>>)
    /\ section_order = <<>>
    /\ paragraph = RawParagraph("2", TxtFooter, <<>>)
    /\ ~UnderHome(raw_paragraphs)
    /\ current_section # Some(FooterZone)
    /\ home_preview_section_keys = <<>>

\* C24: the section order has no duplicate key and holds exactly the keys
\* that have a bucket; a stored display title never changes; a section
\* heading whose key is already registered becomes the current section and
\* leaves titles, buckets and order as they are; a paragraph that switches
\* no zone, read in a dynamic section, is appended to the end of that
\* section's bucket and to no other.
C24_FirstOccurrenceWins ==
    /\ [](NoDuplicates(section_order) /\ Range(section_order) = DOMAIN section_paragraphs)
    /\ [][ DocRead =>
             /\ \A k \in DOMAIN section_titles :
                    k \in DOMAIN section_titles' /\ section_titles'[k] = section_titles[k]
             /\ ( /\ IsDepth1(paragraph')
                  /\ EligibleDepth1(paragraph', menu_items)
                  /\ KeyOf(paragraph') \in DOMAIN section_paragraphs ) =>
                    /\ current_section' = Some(KeyOf(paragraph'))
                    /\ section_paragraphs' = section_paragraphs
                    /\ section_order' = section_order
                    /\ section_titles' = section_titles
             /\ ( /\ ~OpensZone(paragraph', current_h1', menu_items)
                  /\ current_section # None
                  /\ current_section[1] \in DOMAIN section_paragraphs ) =>
                    section_paragraphs' =
                        [section_paragraphs EXCEPT ![current_section[1]] =
                             Append(@, paragraph')]
         ]_vars

C24_Witness ==
    /\ pc = "loop"
    /\ nread = 4
    /\ raw_paragraphs[2] = RawParagraph("1", TxtNews, <<>>)
    /\ raw_paragraphs[4] = RawParagraph("Heading1", TxtNewsLower, <<>>)
    /\ section_order = <<KeyNews>>
    /\ section_titles[KeyNews] = TxtNews
    /\ section_paragraphs[KeyNews] = <<raw_paragraphs[3], raw_paragraphs[5]>>

\* The accumulators that the paragraph just read was appended to: the zone
\* lists by name, the section buckets by key
AppendedTo ==
    (IF menu_items' # menu_items THEN {"menu"} ELSE {})
        \cup (IF title_lines' # title_lines THEN {"title"} ELSE {})
        \cup (IF home_content_blocks' # home_content_blocks THEN {"content"} ELSE {})
        \cup (IF footer_lines' # footer_lines THEN {"footer"} ELSE {})
        \cup {k \in DOMAIN section_paragraphs : section_paragraphs'[k] # section_paragraphs[k]}

\* The accumulator of the current zone
ZoneAccumulator ==
    IF current_section = Some(KeyMenu) THEN {"menu"}
    ELSE IF current_section = Some(KeyTitle) THEN {"title"}
    ELSE IF current_section = Some(KeyContent) THEN {"content"}
    ELSE IF current_section = Some(FooterZone) THEN {"footer"}
    ELSE IF current_section # None /\ current_section[1] \in DOMAIN section_paragraphs
    THEN {current_section[1]}
    ELSE {}

\* C25: a heading that switches the zone is appended to no accumulator (a
\* bucket it creates is empty); any other paragraph is appended to at most
\* one accumulator, that of the current zone, at its end, and leaves the
\* current zone as it is.
C25_OneZonePerParagraph ==
    [][ DocRead =>
          /\ \A k \in DOMAIN section_paragraphs : k \in DOMAIN section_paragraphs'
          /\ IF OpensZone(paragraph', current_h1', menu_items)
             THEN /\ AppendedTo = {}
                  /\ \A k \in DOMAIN section_paragraphs' \ DOMAIN section_paragraphs :
                         section_paragraphs'[k] = <<>>
             ELSE /\ current_section' = current_section
                  /\ DOMAIN section_paragraphs' = DOMAIN section_paragraphs
                  /\ Cardinality(AppendedTo) <= 1
                  /\ AppendedTo \subseteq ZoneAccumulator
                  /\ menu_items' \in {menu_items, Append(menu_items, paragraph'.text)}
                  /\ title_lines' \in {title_lines, Append(title_lines, paragraph'.text)}
                  /\ footer_lines' \in {footer_lines, Append(footer_lines, paragraph'.text)}
                  /\ home_content_blocks' \in
                         {home_content_blocks, Append(home_content_blocks, paragraph')}
                  /\ \A k \in DOMAIN section_paragraphs :
                         section_paragraphs'[k] \in
                             {section_paragraphs[k], Append(section_paragraphs[k], paragraph')}
      ]_vars

C25_Witness ==
    /\ pc = "loop"
    /\ nread = 3
    /\ section_order = <<normalize_section(TxtOther), KeyNews>>
    /\ current_section = Some(KeyNews)
    /\ section_paragraphs[normalize_section(TxtOther)] = <<>>
    /\ section_paragraphs[KeyNews] = <<paragraph>>
    /\ paragraph = RawParagraph("None", TxtX, <<"r1">>)
    /\ menu_items = <<>> /\ title_lines = <<>> /\ footer_lines = <<>>
    /\ home_content_blocks = <<>>

-----------------------------------------------------------------------------
(* Properties of main and the decoding step (SpecMain) *)

\* C12: while decoding has produced no paragraph, parse_docx has returned no
\* SiteData and render_site has not run; once decoding ends with no
\* paragraph the run is over with the error raised to the caller, and no
\* later step returns a SiteData or renders.
C12_EmptyStreamFatal ==
    /\ raw_paragraphs = <<>> => /\ site = None
                                /\ ~rendered
                                /\ mpc \in {"decode", "raised"}
    /\ mpc = "raised" <=> error # None
    /\ error # None => /\ raw_paragraphs = <<>>
                       /\ error = Some("ValueError")
                       /\ ~ENABLED NextMain

C12_Witness ==
    /\ mpc = "raised"
    /\ nxml = 2
    /\ raw_paragraphs = <<>>
    /\ error = Some("ValueError")

\* C18: no image list holds a reference id twice: not the list of a
\* paragraph produced by the decoding step, hence not that of a home content
\* block, and not the list of a produced item.
C18_ImageListsDeduplicated ==
    /\ \A i \in DOMAIN raw_paragraphs : NoDuplicates(raw_paragraphs[i].image_rel_ids)
    /\ \A i \in DOMAIN home_content_blocks :
           NoDuplicates(home_content_blocks[i].image_rel_ids)
    /\ site # None =>
           /\ \A i \in DOMAIN site[1].home_content_blocks :
                  NoDuplicates(site[1].home_content_blocks[i].image_rel_ids)
           /\ \A i \in DOMAIN site[1].menu_sections :
                  \A k \in DOMAIN site[1].menu_sections[i].items :
                      NoDuplicates(site[1].menu_sections[i].items[k].images)

-----------------------------------------------------------------------------
(* Properties of the assembler (Spec) *)

\* The i-th declared menu entry has no bucket
NoBucket(i) == normalize_section(menu_items[i]) \notin DOMAIN section_paragraphs

C14_MenuFallback ==
    pc = "done" /\ menu_items = <<>> =>
        /\ Len(site[1].menu_sections) = Len(section_order)
        /\ \A i \in DOMAIN section_order :
               LET ms == site[1].menu_sections[i]
               IN  /\ ms.title = section_titles[section_order[i]]
                   /\ ms.items = build_items_for_section(
                                     ms.title, ms.slug,
                                     section_paragraphs[section_order[i]])

C14_Witness ==
    /\ pc = "done"
    /\ menu_items = <<>>
    /\ Len(section_order) = 2
    /\ site[1].menu_sections[1].title = TxtOther
    /\ site[1].menu_sections[1].items # <<>>
    /\ site[1].menu_sections[2].title = TxtNews
    /\ site[1].menu_sections[2].items = <<>>

\* The lines that are not blank, trimmed, in their order
RECURSIVE NonBlankTrimmed(_)
NonBlankTrimmed(lines) ==
    IF lines = <<>> THEN <<>>
    ELSE IF Strip(Head(lines)) = <<>> THEN NonBlankTrimmed(Tail(lines))
    ELSE <<Strip(Head(lines))>> \o NonBlankTrimmed(Tail(lines))

RECURSIVE BrSeparated(_)
BrSeparated(lines) ==
    IF lines = <<>> THEN <<>>
    ELSE IF Len(lines) = 1 THEN lines[1]
    ELSE lines[1] \o Str("<br>") \o BrSeparated(Tail(lines))

\* Reading a paragraph leaves the first title-zone image reference in place;
\* the first one ever recorded is the first of the paragraph just read
FirstTitleImageKept ==
    IF title_image_rel_ids # <<>>
    THEN title_image_rel_ids'[1] = title_image_rel_ids[1]
    ELSE title_image_rel_ids' # <<>> =>
             /\ current_section' = Some(KeyTitle)
             /\ title_image_rel_ids'[1] = paragraph'.image_rel_ids[1]

\* C17: in the final model the site title is the first non-blank title-zone
\* line, or the home title when there is none; header main is that first
\* line; header sub is the other non-blank title-zone lines joined with
\* "<br>" (empty when there is at most one); the footer text is the non-blank
\* footer-zone lines joined with "<br>"; the logo is the first image
\* reference seen in the title zone, or none.
C17_Derivations ==
    /\ [](pc = "done" =>
            LET lines == NonBlankTrimmed(title_lines)
            IN  /\ site[1].site_title = IF lines # <<>> THEN lines[1] ELSE home_title
                /\ lines # <<>> => site[1].site_header_title_main = lines[1]
                /\ site[1].site_header_title_sub =
                       IF Len(lines) > 1 THEN BrSeparated(Tail(lines)) ELSE <<>>
                /\ site[1].site_footer_text = BrSeparated(NonBlankTrimmed(footer_lines))
                /\ site[1].site_logo_rel_id =
                       IF title_image_rel_ids = <<>> THEN None
                       ELSE Some(title_image_rel_ids[1]))
    /\ [][DocRead => FirstTitleImageKept]_vars

C17_Witness ==
    /\ pc = "done"
    /\ title_lines = <<TxtX, TxtNews>>
    /\ site[1].site_title = TxtX
    /\ site[1].site_header_title_main = TxtX
    /\ site[1].site_header_title_sub = TxtNews
    /\ site[1].site_logo_rel_id = Some("r1")
    /\ title_image_rel_ids = <<"r1", "r2">>

\* C27: every registered dynamic section has a MenuSection in the final
\* model, titled with its display title, whose items are built from its
\* bucket.
C27_NoSectionLost ==
    pc = "done" =>
        \A i \in DOMAIN section_order :
            \E j \in DOMAIN site[1].menu_sections :
                LET ms == site[1].menu_sections[j]
                IN  /\ ms.title = section_titles[section_order[i]]
                    /\ ms.items = build_items_for_section(
                                      ms.title, ms.slug,
                                      section_paragraphs[section_order[i]])

-----------------------------------------------------------------------------
(* Properties of the list pages (SpecPages) *)

\* The least number of pages of ten that hold n items, and at least one
PagesFor(n) == CHOOSE t \in 1..(n + 1) :
                   /\ 10 * t >= n
                   /\ \A u \in 1..(t - 1) : 10 * u < n

\* C29: for a section of n items the renderer writes max(1, ceil(n/10))
\* list pages, each to a file of its own; page p holds the items at
\* positions 10(p-1)+1 .. min(10p, n) in order, so the pages in order hold
\* every item once, none holds more than 10, and a section without items
\* gets one empty page.
C29_PagesPartitionItems ==
    lpc = "done" =>
        LET n == Len(menu_section.items)
        IN  /\ Len(pages) = PagesFor(n)
            /\ \A i, j \in DOMAIN pages : i # j => pages[i].target # pages[j].target
            /\ \A i \in DOMAIN pages :
                   /\ pages[i].current_page = i
                   /\ pages[i].total_pages = PagesFor(n)
                   /\ Len(pages[i].items) <= 10
                   /\ pages[i].items =
                          [k \in 1..((IF 10 * i < n THEN 10 * i ELSE n) - 10 * (i - 1)) |->
                              menu_section.items[10 * (i - 1) + k]]
            /\ Flatten([i \in DOMAIN pages |-> pages[i].items]) = menu_section.items
            /\ n = 0 => Len(pages) = 1 /\ pages[1].items = <<>>

C29_Witness ==
    /\ lpc = "done"
    /\ Len(menu_section.items) = 21
    /\ Len(pages) = 3
    /\ Len(pages[2].items) = 10
    /\ pages[3].items = <<21>>

\* C30: page 1 has the section base URL as permalink; the previous link of
\* page p is empty iff p = 1 and otherwise the permalink of page p - 1; the
\* next link is empty iff p is the last page and otherwise the permalink of
\* page p + 1.
C30_LinksChain ==
    lpc = "done" =>
        \A i \in DOMAIN pages :
            /\ pages[i].permalink # <<>>
            /\ i = 1 => pages[i].permalink = pages[i].base_url
            /\ pages[i].prev_url = IF i = 1 THEN <<>> ELSE pages[i - 1].permalink
            /\ pages[i].next_url =
                   IF i = pages[i].total_pages THEN <<>> ELSE pages[i + 1].permalink

C30_Witness ==
    /\ lpc = "done"
    /\ Len(pages) = 3
    /\ menu_section.slug = Str("news")
    /\ pages[1].permalink = Str("/news/")
    /\ pages[2].prev_url = Str("/news/")
    /\ pages[2].next_url = Str("/news/page/3/")
    /\ pages[3].prev_url = Str("/news/page/2/")
    /\ pages[3].next_url = <<>>

====
